---- MODULE Spec2Model ----
(***************************************************************************)
(* State machine of addon/mixins/realtime-store-mixin.js: RealtimeSocket   *)
(* (handshake and connection flag), CementChannel (request/response        *)
(* correlation on the subscribe channel) and the store mixin (subscription *)
(* registry, replay on connect, dispatch of update/delete notifications).  *)
(* The glue transport, the jargo-realtime server, the host's adapter and   *)
(* the host's connectionMessage() are the environment: they are the \E     *)
(* inputs and the guards of the event actions.                             *)
(***************************************************************************)
EXTENDS Integers, Sequences, FiniteSets, TLC

\* ---------------------------------------------------------------- bounds
\* transport 'connected' events (one handshake task instance each)
MaxConnects == 2
\* correlation ids issued by CementChannel.send
MaxIds == 2
\* records in one store push
MaxPush == 2

\* ------------------------------------------------------------ value sets
\* Ember model names (model._internalModel.modelName)
ModelNames == {"post", "comment"}
\* JSON API (wire) model names; "tags" is a type the store never subscribes to
WireNames == {"posts", "comments", "tags"}
\* record ids (model.id)
RecordIds == {"1", "2"}
\* the value of a missing key of a JS object
Undefined == "undefined"
\* the three handshake sentinels and any other frame on the main channel
Sentinels == {"CONNECTION_TIMEOUT", "CONNECTION_DISALLOWED", "CONNECTION_ACCEPTED"}
MainFrames == Sentinels \cup {"OTHER"}
\* status field of a correlated response: 0 is success
Statuses == {0, 1}
\* a response nobody asked for carries an id that send never issued
BogusId == 0
NoResponse == -1
\* what channel.send of the transport does with a frame: it sends (or queues)
\* it, it throws, or it drops it and says so in a return value
SendOutcomes == {"sent", "throws", "discarded"}

VARIABLES
  socketUp,           \* the glue transport is connected
  hello,              \* connection messages the server holds unanswered
  connected,          \* RealtimeSocket.connected
  handshakes,         \* instances of socketOnConnectedTask, in start order
  onMessageOwner,     \* task whose closure is the main channel's onMessage
  subscriptions,      \* mixin.subscriptions: ordered [key, val] pairs
  jsonapiModelNames,  \* mixin.jsonapiModelNames
  sent,               \* requests made on the subscribe channel, by correlation
                      \* id, each with what the transport did with its frame
  cementMessages,     \* CementChannel.cementMessages: ids with an entry
  promise,            \* promise returned by CementChannel.send, by id
  firstResponse,      \* status of the first response frame received for an id
  strayResponses,     \* parity of the response frames received for an id that
                      \* was never issued or was already answered
  lastDispatch,       \* last call into the store made by a notification
  lastError,          \* last exception thrown out of a message handler
  onConnectedCalls,   \* invocations of the onConnected callback
  onDisconnectedCalls,\* invocations of the onDisconnected callback
  disconnectedEvents  \* transport 'disconnected' events emitted

vars == <<socketUp, hello, connected, handshakes, onMessageOwner,
          subscriptions, jsonapiModelNames, sent, cementMessages, promise,
          firstResponse, strayResponses, lastDispatch, lastError,
          onConnectedCalls, onDisconnectedCalls, disconnectedEvents>>

\* ------------------------------------------------- JS objects and arrays
\* obj.hasOwnProperty(k)
HasKey(obj, k) == \E i \in 1..Len(obj) : obj[i].key = k

\* an assignment that replaces the object by one holding only k
SetKeyForgetsOthers(obj, k, v) == <<[key |-> k, val |-> v]>>

\* obj[k] = v: a new key goes last, an existing key keeps its place
SetKey(obj, k, v) ==
  IF HasKey(obj, k)
  THEN [i \in 1..Len(obj) |-> IF obj[i].key = k THEN [key |-> k, val |-> v] ELSE obj[i]]
  ELSE Append(obj, [key |-> k, val |-> v])

\* let ids = subscriptions[modelName]; if (ids === undefined) ids = [];
IdsOf(obj, k) ==
  IF HasKey(obj, k)
  THEN obj[CHOOSE i \in 1..Len(obj) : obj[i].key = k].val
  ELSE <<>>

\* ids.includes(id)
Includes(ids, id) == \E i \in 1..Len(ids) : ids[i] = id

\* the (modelName, id) pairs of the registry
Tracked(obj) ==
  UNION {{<<obj[i].key, obj[i].val[j]>> : j \in 1..Len(obj[i].val)} : i \in 1..Len(obj)}

\* this.adapterFor(modelName).pathForType(modelName): the adapter's default,
\* the plural of the model name
PathForType(modelName) == IF modelName = "post" THEN "posts" ELSE "comments"

\* ------------------------------------------------------ the program state
\* The fields a synchronous run of the mixin reads and writes, threaded
\* through the operators below; cause names the caller for the send log
\* (0: _push, t: the handshake task t that invoked onConnected), outcome is
\* what the transport does with the frames of this run.
State(cause) ==
  [connected |-> connected, subscriptions |-> subscriptions,
   jsonapiModelNames |-> jsonapiModelNames, sent |-> sent,
   cementMessages |-> cementMessages, promise |-> promise,
   onConnectedCalls |-> onConnectedCalls, cause |-> cause, outcome |-> "sent"]

\* CementChannel.send: a fresh id, the frame is given to channel.send, the
\* continuation is recorded. A throw of channel.send leaves the executor
\* before the entry is recorded and rejects the promise; the return value of
\* channel.send is not read. conn and cause are the log's record of the
\* moment of the send.
CementChannelSend(st, data) ==
  LET id == Len(st.sent) + 1
      st1 == [st EXCEPT !.sent = Append(@, [id |-> id, data |-> data,
                                             conn |-> st.connected,
                                             cause |-> st.cause,
                                             outcome |-> st.outcome])]
  IN IF st.outcome = "throws"
     THEN [st1 EXCEPT !.promise = Append(@, "rejected")]
     ELSE [st1 EXCEPT !.cementMessages = @ \cup {id},
                      !.promise = Append(@, "pending")]

\* RealtimeSocket.subscribe
Subscribe(st, model, id) == CementChannelSend(st, [model |-> model, id |-> id])

\* subscribeTask that sends the request and records no binding
SubscribeTaskNoBinding(st, modelName, id) ==
  Subscribe(st, PathForType(modelName), id)

\* subscribeTask, up to its yield
SubscribeTask(st, modelName, id) ==
  LET jsonapiModelName == PathForType(modelName) IN
  Subscribe([st EXCEPT !.jsonapiModelNames[jsonapiModelName] = modelName],
            jsonapiModelName, id)

\* shouldSubscribe(model), as a host overrides it: one record is of no interest
ShouldSubscribe(model) == ~(model.modelName = "comment" /\ model.id = "2")

\* _push without the ids.includes test
PushModelNoIncludes(st, model) ==
  IF ~ShouldSubscribe(model) THEN st
  ELSE LET ids == IdsOf(st.subscriptions, model.modelName)
           st1 == IF st.connected
                  THEN SubscribeTask(st, model.modelName, model.id)
                  ELSE st
       IN [st1 EXCEPT !.subscriptions =
                        SetKey(@, model.modelName, Append(ids, model.id))]

\* _push without the test of the socket's connected flag
PushModelNoConnectedTest(st, model) ==
  IF ~ShouldSubscribe(model) THEN st
  ELSE LET ids == IdsOf(st.subscriptions, model.modelName) IN
       IF Includes(ids, model.id)
       THEN st
       ELSE [SubscribeTask(st, model.modelName, model.id) EXCEPT !.subscriptions =
               SetKey(@, model.modelName, Append(ids, model.id))]

\* one turn of the loop of _push over the pushed records
PushModel(st, model) ==
  IF ~ShouldSubscribe(model) THEN st
  ELSE LET ids == IdsOf(st.subscriptions, model.modelName) IN
       IF Includes(ids, model.id)
       THEN [st EXCEPT !.subscriptions = SetKey(@, model.modelName, ids)]
       ELSE LET st1 == IF st.connected
                       THEN SubscribeTask(st, model.modelName, model.id)
                       ELSE st
            IN [st1 EXCEPT !.subscriptions =
                             SetKey(@, model.modelName, Append(ids, model.id))]

RECURSIVE PushModels(_, _, _)
PushModels(st, models, k) ==
  IF k > Len(models) THEN st
  ELSE PushModels(PushModel(st, models[k]), models, k + 1)

\* the pairs onConnected walks: keys in insertion order, ids in array order
RECURSIVE ReplayPairs(_, _)
ReplayPairs(obj, i) ==
  IF i > Len(obj) THEN <<>>
  ELSE [j \in 1..Len(obj[i].val) |-> <<obj[i].key, obj[i].val[j]>>]
       \o ReplayPairs(obj, i + 1)

RECURSIVE SubscribeAll(_, _, _)
SubscribeAll(st, pairs, k) ==
  IF k > Len(pairs) THEN st
  ELSE SubscribeAll(SubscribeTask(st, pairs[k][1], pairs[k][2]), pairs, k + 1)

\* onConnected that skips the pairs a subscribe frame was already sent for
OnConnectedOnlyNew(st) ==
  SubscribeAll([st EXCEPT !.onConnectedCalls = @ + 1],
               SelectSeq(ReplayPairs(st.subscriptions, 1),
                         LAMBDA p : \A k \in 1..Len(st.sent) :
                           st.sent[k].data # [model |-> PathForType(p[1]), id |-> p[2]]),
               1)

\* mixin.onConnected
OnConnected(st) ==
  SubscribeAll([st EXCEPT !.onConnectedCalls = @ + 1],
               ReplayPairs(st.subscriptions, 1), 1)

\* socketOnConnectedTask after its second yield
AfterHandshake(st) == OnConnected([st EXCEPT !.connected = TRUE])

\* write a threaded state back
Commit(st) ==
  /\ connected' = st.connected
  /\ subscriptions' = st.subscriptions
  /\ jsonapiModelNames' = st.jsonapiModelNames
  /\ sent' = st.sent
  /\ cementMessages' = st.cementMessages
  /\ promise' = st.promise
  /\ onConnectedCalls' = st.onConnectedCalls
  /\ firstResponse' = firstResponse \o [k \in 1..(Len(st.sent) - Len(sent)) |-> NoResponse]

\* ------------------------------------------------------------------ Init
Init ==
  /\ socketUp = FALSE
  /\ hello = 0
  /\ connected = FALSE
  /\ handshakes = <<>>
  /\ onMessageOwner = 0
  /\ subscriptions = <<>>
  /\ jsonapiModelNames = [w \in WireNames |-> Undefined]
  /\ sent = <<>>
  /\ cementMessages = {}
  /\ promise = <<>>
  /\ firstResponse = <<>>
  /\ strayResponses = 0
  /\ lastDispatch = [op |-> "none", modelName |-> Undefined, id |-> "",
                     payload |-> <<>>,
                     frame |-> [model |-> Undefined, id |-> "", payload |-> <<>>]]
  /\ lastError = "none"
  /\ onConnectedCalls = 0
  /\ onDisconnectedCalls = 0
  /\ disconnectedEvents = 0

Tasks == 1..Len(handshakes)

\* --------------------------------------------------------- RealtimeSocket
\* transport 'connected': socketOnConnected performs socketOnConnectedTask,
\* which runs to its first yield, the call of connectionMessage()
SocketOnConnected ==
  /\ ~socketUp
  /\ Len(handshakes) < MaxConnects
  /\ socketUp' = TRUE
  /\ handshakes' = Append(handshakes,
                          [pc |-> "connectionMessage", sentinel |-> "none",
                           disc |-> onDisconnectedCalls,
                           events |-> disconnectedEvents])
  /\ UNCHANGED <<hello, connected, onMessageOwner, subscriptions,
                 jsonapiModelNames, sent, cementMessages, promise,
                 firstResponse, strayResponses, lastDispatch, lastError,
                 onConnectedCalls, onDisconnectedCalls, disconnectedEvents>>

\* socketOnDisconnected that clears the flag and forgets the callback
SocketOnDisconnectedNoCallback ==
  /\ socketUp
  /\ socketUp' = FALSE
  /\ hello' = 0
  /\ disconnectedEvents' = disconnectedEvents + 1
  /\ connected' = FALSE
  /\ UNCHANGED <<handshakes, onMessageOwner, subscriptions, jsonapiModelNames,
                 sent, cementMessages, promise, firstResponse, strayResponses,
                 lastDispatch, lastError, onConnectedCalls,
                 onDisconnectedCalls>>

\* transport 'disconnected': socketOnDisconnected. What the server held of
\* the lost connection is gone with it.
SocketOnDisconnected ==
  /\ socketUp
  /\ socketUp' = FALSE
  /\ hello' = 0
  /\ disconnectedEvents' = disconnectedEvents + 1
  /\ connected' = FALSE
  /\ onDisconnectedCalls' = onDisconnectedCalls + 1
  /\ UNCHANGED <<handshakes, onMessageOwner, subscriptions, jsonapiModelNames,
                 sent, cementMessages, promise, firstResponse, strayResponses,
                 lastDispatch, lastError, onConnectedCalls>>

\* connectionMessage() resolves and the task calls sendConnectionMessage: the
\* main channel's onMessage becomes this task's closure, the message is sent
\* (the transport buffers it while it is down), the task yields the promise
SendConnectionMessage(t) ==
  /\ handshakes[t].pc = "connectionMessage"
  /\ onMessageOwner' = t
  /\ hello' = hello + 1
  /\ handshakes' = [handshakes EXCEPT ![t].pc = "sentinel"]
  /\ UNCHANGED <<socketUp, connected, subscriptions, jsonapiModelNames, sent,
                 cementMessages, promise, firstResponse, strayResponses,
                 lastDispatch, lastError, onConnectedCalls,
                 onDisconnectedCalls, disconnectedEvents>>

\* connectionMessage() rejects: the task ends with the error
ConnectionMessageFails(t) ==
  /\ handshakes[t].pc = "connectionMessage"
  /\ handshakes' = [handshakes EXCEPT ![t].pc = "failed"]
  /\ UNCHANGED <<socketUp, hello, connected, onMessageOwner, subscriptions,
                 jsonapiModelNames, sent, cementMessages, promise,
                 firstResponse, strayResponses, lastDispatch, lastError,
                 onConnectedCalls, onDisconnectedCalls, disconnectedEvents>>

\* a closure that resolves on any answer of the server to the message
HandshakeOutcomeAnyAnswer(message) ==
  IF message = "CONNECTION_TIMEOUT" THEN "rejected"
  ELSE IF message = "CONNECTION_DISALLOWED" THEN "resolved"
  ELSE IF message = "CONNECTION_ACCEPTED" THEN "resolved"
  ELSE "sentinel"

\* a closure that makes the task send its connection message again when the
\* server disallows or times out
HandshakeOutcomeRetries(message) ==
  IF message = "CONNECTION_TIMEOUT" THEN "connectionMessage"
  ELSE IF message = "CONNECTION_DISALLOWED" THEN "connectionMessage"
  ELSE IF message = "CONNECTION_ACCEPTED" THEN "resolved"
  ELSE "sentinel"

\* the closure sendConnectionMessage gives to socket.onMessage
HandshakeOutcome(message) ==
  IF message = "CONNECTION_TIMEOUT" THEN "rejected"
  ELSE IF message = "CONNECTION_DISALLOWED" THEN "rejected"
  ELSE IF message = "CONNECTION_ACCEPTED" THEN "resolved"
  ELSE "sentinel"

\* a frame on the main channel. The server accepts or disallows a connection
\* message it holds; it may send the timeout sentinel or another frame at any
\* time. The frame goes to the closure registered last; a settled promise is
\* not settled again.
SocketOnMessage(message) ==
  /\ socketUp
  /\ message \in {"CONNECTION_ACCEPTED", "CONNECTION_DISALLOWED"} => hello > 0
  /\ hello' = IF message \in {"CONNECTION_ACCEPTED", "CONNECTION_DISALLOWED"}
              THEN hello - 1 ELSE hello
  /\ handshakes' =
       IF onMessageOwner \in Tasks /\ handshakes[onMessageOwner].pc = "sentinel"
       THEN [handshakes EXCEPT
               ![onMessageOwner].pc = HandshakeOutcome(message),
               ![onMessageOwner].sentinel =
                  IF @ = "none" /\ message \in Sentinels THEN message ELSE @]
       ELSE handshakes
  /\ UNCHANGED <<socketUp, connected, onMessageOwner, subscriptions,
                 jsonapiModelNames, sent, cementMessages, promise,
                 firstResponse, strayResponses, lastDispatch, lastError,
                 onConnectedCalls, onDisconnectedCalls, disconnectedEvents>>

\* the task resumes after the handshake promise resolved
SocketOnConnectedTask(t) ==
  /\ handshakes[t].pc = "resolved"
  /\ LET st == AfterHandshake(State(t)) IN
       /\ Len(st.sent) <= MaxIds
       /\ Commit(st)
  /\ handshakes' = [handshakes EXCEPT ![t].pc = "done"]
  /\ UNCHANGED <<socketUp, hello, onMessageOwner, strayResponses,
                 lastDispatch, lastError, onDisconnectedCalls,
                 disconnectedEvents>>

\* ------------------------------------------------------------ store mixin
PushedRecords == [modelName : ModelNames, id : RecordIds]

PushInputs ==
  UNION {[1..n -> PushedRecords] : n \in 1..MaxPush}

\* store._push with the records pushed
Push(models) ==
  /\ LET st == PushModels(State(0), models, 1) IN
       /\ Len(st.sent) <= MaxIds
       /\ Commit(st)
  /\ UNCHANGED <<socketUp, hello, handshakes, onMessageOwner, strayResponses,
                 lastDispatch, lastError, onDisconnectedCalls,
                 disconnectedEvents>>

\* store._push while the transport fails the sends of the run: channel.send
\* throws, or drops the frame and returns
PushSendFails(models, outcome) ==
  /\ LET st == PushModels([State(0) EXCEPT !.outcome = outcome], models, 1) IN
       /\ Len(st.sent) <= MaxIds
       /\ Commit(st)
  /\ UNCHANGED <<socketUp, hello, handshakes, onMessageOwner, strayResponses,
                 lastDispatch, lastError, onDisconnectedCalls,
                 disconnectedEvents>>

\* ------------------------------------------------------------ notifications
\* the payload of an update frame is a JSON-encoded document of the resource
EncodePayload(type, id) == <<"json", type, id>>

\* JSON.parse(message.payload)
ParsePayload(payload) == <<payload[2], payload[3]>>

\* the model the store itself finds for a document's type; "tags" has none
StoreModelFor(type) ==
  IF type = "posts" THEN "post" ELSE IF type = "comments" THEN "comment" ELSE Undefined

\* a lookup that hands the wire name on as it came
LookupModelNameWire(names, jsonapiModelName) == jsonapiModelName

\* this.get('jsonapiModelNames')[jsonapiModelName]
LookupModelName(names, jsonapiModelName) == names[jsonapiModelName]

\* _onModelUpdated and onModelUpdated on a frame {model, id, payload}:
\* pushPayload is called with whatever the lookup gave and the decoded
\* payload; the id of the frame is not an argument of pushPayload.
\* lastDispatch keeps the call together with the frame that caused it. With a bound name the
\* store pushes the document's record through _push. With undefined the
\* store's build decides (throws): it raises, or it ignores the name and
\* pushes as well; a type the store has no model for always raises.
OnModelUpdated(frame, throws) ==
  /\ socketUp
  /\ LET modelName == LookupModelName(jsonapiModelNames, frame.model)
         payload == ParsePayload(frame.payload)
         record == [modelName |-> StoreModelFor(payload[1]), id |-> payload[2]]
     IN /\ lastDispatch' = [op |-> "pushPayload", modelName |-> modelName,
                            id |-> Undefined, payload |-> payload,
                            frame |-> frame]
        /\ IF (modelName = Undefined /\ throws) \/ record.modelName = Undefined
           THEN /\ lastError' = "Error"
                /\ UNCHANGED <<connected, subscriptions, jsonapiModelNames,
                               sent, cementMessages, promise, firstResponse,
                               strayResponses, onConnectedCalls>>
           ELSE /\ LET st == PushModels(State(0), <<record>>, 1) IN
                     /\ Len(st.sent) <= MaxIds
                     /\ Commit(st)
                /\ UNCHANGED lastError
  /\ UNCHANGED <<socketUp, hello, handshakes, onMessageOwner, strayResponses,
                 onDisconnectedCalls, disconnectedEvents>>

\* _onModelDeleted and onModelDeleted on a frame {model, id}: deleteRecordTask
\* is performed with whatever the lookup gave; find(undefined, id) raises
\* inside the task or not, as the store's build decides
OnModelDeleted(frame, throws) ==
  /\ socketUp
  /\ LET modelName == LookupModelName(jsonapiModelNames, frame.model) IN
       /\ lastDispatch' = [op |-> "deleteRecordTask", modelName |-> modelName,
                           id |-> frame.id, payload |-> <<>>,
                           frame |-> [model |-> frame.model, id |-> frame.id,
                                      payload |-> <<>>]]
       /\ lastError' = IF modelName = Undefined /\ throws THEN "Error" ELSE lastError
  /\ UNCHANGED <<socketUp, hello, connected, handshakes, onMessageOwner,
                 subscriptions, jsonapiModelNames, sent, cementMessages,
                 promise, firstResponse, strayResponses, onConnectedCalls,
                 onDisconnectedCalls, disconnectedEvents>>

UpdateFrames ==
  {[model |-> w, id |-> i, payload |-> EncodePayload(w, i)] :
     w \in WireNames, i \in RecordIds}

DeleteFrames == [model : WireNames, id : RecordIds]

\* ---------------------------------------------------------- CementChannel
\* onMessage that resolves whatever the status is
CementChannelOnMessageAlwaysResolves(st, id, status) ==
  IF id \in st.cementMessages
  THEN [st EXCEPT !.promise[id] = "resolved", !.cementMessages = @ \ {id}]
  ELSE [st EXCEPT !.lastError = "TypeError"]

\* onMessage that settles the oldest entry instead of the entry of data.id
CementChannelOnMessageOldest(st, id, status) ==
  IF st.cementMessages # {}
  THEN LET k == CHOOSE k \in st.cementMessages : \A j \in st.cementMessages : k <= j IN
       [st EXCEPT !.promise[k] = IF status = 0 THEN "resolved" ELSE "rejected",
                  !.cementMessages = @ \ {k}]
  ELSE [st EXCEPT !.lastError = "TypeError"]

\* onMessage that drops a frame whose id has no entry
CementChannelOnMessageDropsUnknown(st, id, status) ==
  IF id \in st.cementMessages
  THEN [st EXCEPT !.promise[id] = IF status = 0 THEN "resolved" ELSE "rejected",
                  !.cementMessages = @ \ {id}]
  ELSE st

\* onMessage whose rejection takes every outstanding request down with it
CementChannelOnMessageRejectsAll(st, id, status) ==
  IF id \in st.cementMessages
  THEN IF status = 0
       THEN [st EXCEPT !.promise[id] = "resolved", !.cementMessages = @ \ {id}]
       ELSE [st EXCEPT !.promise = [k \in DOMAIN st.promise |->
                                      IF k \in st.cementMessages THEN "rejected"
                                      ELSE st.promise[k]],
                       !.cementMessages = {}]
  ELSE [st EXCEPT !.lastError = "TypeError"]

\* onMessage that settles the promise and keeps the entry
CementChannelOnMessageKeepsEntry(st, id, status) ==
  IF id \in st.cementMessages
  THEN [st EXCEPT !.promise[id] = IF status = 0 THEN "resolved" ELSE "rejected"]
  ELSE [st EXCEPT !.lastError = "TypeError"]

\* CementChannel.onMessage on the decoded frame {id, status}: an id without
\* an entry makes cementMessages[data.id].resolve throw a TypeError before
\* the delete
CementChannelOnMessage(st, id, status) ==
  IF id \in st.cementMessages
  THEN [st EXCEPT !.promise[id] = IF status = 0 THEN "resolved" ELSE "rejected",
                  !.cementMessages = @ \ {id}]
  ELSE [st EXCEPT !.lastError = "TypeError"]

\* a response frame arrives on the subscribe channel
SubscribeChannelOnMessage(id, status) ==
  /\ socketUp
  /\ LET st == CementChannelOnMessage(
                 [cementMessages |-> cementMessages, promise |-> promise,
                  lastError |-> lastError], id, status) IN
       /\ cementMessages' = st.cementMessages
       /\ promise' = st.promise
       /\ lastError' = st.lastError
  /\ firstResponse' =
       IF id \in 1..Len(sent) /\ firstResponse[id] = NoResponse
       THEN [firstResponse EXCEPT ![id] = status]
       ELSE firstResponse
  /\ strayResponses' =
       IF id \in 1..Len(sent) /\ firstResponse[id] = NoResponse
       THEN strayResponses
       ELSE (strayResponses + 1) % 2
  /\ UNCHANGED <<socketUp, hello, connected, handshakes, onMessageOwner,
                 subscriptions, jsonapiModelNames, sent, lastDispatch,
                 onConnectedCalls, onDisconnectedCalls, disconnectedEvents>>

Next ==
  \/ SocketOnConnected
  \/ SocketOnDisconnected
  \/ \E t \in Tasks : SendConnectionMessage(t)
  \/ \E t \in Tasks : ConnectionMessageFails(t)
  \/ \E message \in MainFrames : SocketOnMessage(message)
  \/ \E t \in Tasks : SocketOnConnectedTask(t)
  \/ \E models \in PushInputs : Push(models)
  \/ \E id \in {BogusId} \cup (1..Len(sent)), status \in Statuses :
       SubscribeChannelOnMessage(id, status)

Spec == Init /\ [][Next]_vars

\* the connection, the registry and the notification channels
NextDispatch ==
  \/ SocketOnConnected
  \/ SocketOnDisconnected
  \/ \E t \in Tasks : SendConnectionMessage(t)
  \/ \E message \in Sentinels : SocketOnMessage(message)
  \/ \E t \in Tasks : SocketOnConnectedTask(t)
  \/ \E models \in PushInputs : Push(models)
  \/ \E frame \in UpdateFrames, throws \in BOOLEAN : OnModelUpdated(frame, throws)
  \/ \E frame \in DeleteFrames, throws \in BOOLEAN : OnModelDeleted(frame, throws)

DispatchSpec == Init /\ [][NextDispatch]_vars

\* Spec with the scheduling the run loop gives: a task whose promise has
\* settled is resumed, and the host's connectionMessage() settles
FairSpec ==
  /\ Spec
  /\ WF_vars(\E t \in Tasks : SocketOnConnectedTask(t))
  /\ WF_vars(\E t \in Tasks : SendConnectionMessage(t) \/ ConnectionMessageFails(t))

\* the connection, the registry and a transport whose sends can fail; the
\* server answers the frames that reached it
NextSend ==
  \/ SocketOnConnected
  \/ SocketOnDisconnected
  \/ \E t \in Tasks : SendConnectionMessage(t)
  \/ \E message \in Sentinels : SocketOnMessage(message)
  \/ \E t \in Tasks : SocketOnConnectedTask(t)
  \/ \E models \in PushInputs : Push(models)
  \/ \E model \in PushedRecords, outcome \in SendOutcomes \ {"sent"} :
       PushSendFails(<<model>>, outcome)
  \/ \E id \in {BogusId} \cup {k \in 1..Len(sent) : sent[k].outcome = "sent"},
        status \in Statuses :
       SubscribeChannelOnMessage(id, status)

SendSpec == Init /\ [][NextSend]_vars

\* ------------------------------------------------------------ properties
\* the subscribe frame of a tracked (modelName, id) pair
FrameOf(p) == [model |-> PathForType(p[1]), id |-> p[2]]

\* the ids of the frames sent for pair p, in log
FramesFor(log, p) == {k \in 1..Len(log) : log[k].data = FrameOf(p)}

\* the step in which handshake task t resumes and invokes onConnected
Resumes(t) == handshakes[t].pc = "resolved" /\ handshakes'[t].pc = "done"

\* C1: an accepted handshake re-subscribes every tracked pair exactly once:
\* the step in which a handshake task resumes sends one subscribe frame per
\* tracked pair and nothing else, whether or not the pair had a frame before,
\* in every connect/disconnect cycle and every interleaving.
C1_ReplayExactlyOnce ==
  [][\A t \in Tasks : Resumes(t) =>
       /\ Len(sent') = Len(sent) + Cardinality(Tracked(subscriptions))
       /\ \A p \in Tracked(subscriptions) :
            Cardinality({k \in FramesFor(sent', p) : k > Len(sent) /\ sent'[k].cause = t}) = 1
       /\ \A k \in 1..Len(sent) : sent'[k] = sent[k]]_vars

\* a pair subscribed by _push before a disconnect has a second frame, sent by
\* the handshake task of the reconnect
C1_Witness ==
  /\ disconnectedEvents >= 1
  /\ \E i, j \in 1..Len(sent) :
       /\ sent[i].data = sent[j].data
       /\ sent[i].cause = 0
       /\ sent[j].cause = 2

\* the (model, id) of the frames sent so far
SentPairs == {sent[k].data : k \in 1..Len(sent)}

\* C2: tracking is idempotent: only tracked pairs are ever sent, while
\* connected the pairs sent are exactly the pairs tracked, and a step that
\* tracks nothing new and is no replay sends nothing and leaves the registry
\* as it is; a step that tracks new pairs while connected sends one frame each.
C2_TrackIdempotent ==
  /\ [](/\ SentPairs \subseteq {FrameOf(p) : p \in Tracked(subscriptions)}
        /\ connected => SentPairs = {FrameOf(p) : p \in Tracked(subscriptions)})
  /\ [][onConnectedCalls' = onConnectedCalls =>
          /\ Tracked(subscriptions') = Tracked(subscriptions) =>
               sent' = sent /\ subscriptions' = subscriptions
          /\ Len(sent') - Len(sent) =
               IF connected
               THEN Cardinality(Tracked(subscriptions') \ Tracked(subscriptions))
               ELSE 0]_vars

\* two pairs tracked and sent while connected, one frame each
C2_Witness ==
  /\ connected
  /\ Cardinality(Tracked(subscriptions)) = 2
  /\ Len(sent) = 2
  /\ \A k \in 1..Len(sent) : sent[k].cause = 0

\* C3: no subscribe frame is sent while connected is false: every frame of the
\* log was sent with the flag true, a step that leaves the flag false sends
\* nothing, and a pair without a frame gets exactly one when a handshake task
\* resumes.
C3_NoSendWhileDisconnected ==
  /\ [](\A k \in 1..Len(sent) : sent[k].conn)
  /\ [][/\ ~connected' => sent' = sent
        /\ \A t \in Tasks : Resumes(t) =>
             \A p \in Tracked(subscriptions) :
               FramesFor(sent, p) = {} => Cardinality(FramesFor(sent', p)) = 1]_vars

\* a pair tracked while not connected: its only frame was sent by a handshake task
C3_Witness ==
  \E p \in Tracked(subscriptions) :
    /\ Cardinality(FramesFor(sent, p)) = 1
    /\ \A k \in FramesFor(sent, p) : sent[k].cause >= 1 /\ sent[k].conn

C5_NoCrossResolve ==
  [][\A b \in 1..Len(sent) :
       firstResponse'[b] = firstResponse[b] =>
         /\ promise'[b] = promise[b]
         /\ b \in cementMessages <=> b \in cementMessages']_vars

\* the later of two outstanding requests was answered first, the earlier is
\* still pending with its entry
C5_Witness ==
  /\ Len(sent) = 2
  /\ promise[2] # "pending"
  /\ promise[1] = "pending"
  /\ 1 \in cementMessages

\* C6: a handshake never hangs: a task that has sent its connection message
\* and waits for the sentinel eventually has its promise settled.
C6_HandshakeSettles ==
  \A t \in 1..MaxConnects :
    (t \in Tasks /\ handshakes[t].pc = "sentinel")
      ~> (t \in Tasks /\ handshakes[t].pc \in {"resolved", "rejected", "done"})

\* the handshake tasks that have invoked onConnected
Done == {t \in Tasks : handshakes[t].pc = "done"}

\* C7: connected is set and onConnected is invoked only by a handshake task
\* whose promise the CONNECTION_ACCEPTED sentinel resolved, once per task: a
\* task that got CONNECTION_DISALLOWED or CONNECTION_TIMEOUT is rejected and a
\* task that got no sentinel has not gone past its wait.
C7_ConnectedOnlyOnAccept ==
  /\ [](/\ onConnectedCalls = Cardinality(Done)
        /\ \A t \in Tasks :
             /\ handshakes[t].pc \in {"resolved", "done"} <=>
                  handshakes[t].sentinel = "CONNECTION_ACCEPTED"
             /\ handshakes[t].sentinel \in {"CONNECTION_DISALLOWED", "CONNECTION_TIMEOUT"} <=>
                  handshakes[t].pc = "rejected"
             /\ handshakes[t].sentinel = "none" <=>
                  handshakes[t].pc \in {"connectionMessage", "sentinel", "failed"})
  /\ [][(connected' /\ ~connected) \/ onConnectedCalls' # onConnectedCalls =>
          \E t \in Tasks :
            /\ handshakes[t].sentinel = "CONNECTION_ACCEPTED"
            /\ Resumes(t)
            /\ connected'
            /\ onConnectedCalls' = onConnectedCalls + 1]_vars

\* the first handshake was disallowed and left connected false; the second
\* was accepted and set it
C7_Witness ==
  /\ Len(handshakes) = 2
  /\ handshakes[1].sentinel = "CONNECTION_DISALLOWED"
  /\ handshakes[1].pc = "rejected"
  /\ handshakes[2].pc = "done"
  /\ onConnectedCalls = 1
  /\ connected

\* C8: a transport 'disconnected' event clears connected and invokes
\* onDisconnected once, nothing else invokes it, and a handshake task starts
\* only after the callbacks of all earlier disconnected events have run.
C8_DisconnectHandledOnce ==
  /\ [](/\ onDisconnectedCalls = disconnectedEvents
        /\ \A t \in Tasks :
             handshakes[t].disc = handshakes[t].events /\ handshakes[t].disc = t - 1)
  /\ [][/\ disconnectedEvents' # disconnectedEvents =>
             ~connected' /\ onDisconnectedCalls' = onDisconnectedCalls + 1
        /\ onDisconnectedCalls' # onDisconnectedCalls =>
             disconnectedEvents' = disconnectedEvents + 1]_vars

\* a reconnect: the second handshake task started after the one disconnect
\* was handled
C8_Witness ==
  /\ Len(handshakes) = 2
  /\ handshakes[2].disc = 1
  /\ onDisconnectedCalls = 1
  /\ disconnectedEvents = 1

\* C9: a notification whose wire type has no binding is not handed to the
\* store: no pushPayload or deleteRecordTask call is made with an undefined
\* model name.
C9_UnboundNotDispatched ==
  lastDispatch.op # "none" => lastDispatch.modelName # Undefined

\* C10: a response frame whose id has no entry raises an error out of
\* onMessage and touches no request: in the step it arrives cementMessages and
\* every promise stay as they are, and afterwards every request is still
\* pending exactly if its own response has not arrived.
C10_StrayResponseHarmless ==
  /\ [][strayResponses' # strayResponses =>
          /\ lastError' = "TypeError"
          /\ cementMessages' = cementMessages
          /\ promise' = promise]_vars
  /\ [](lastError = "TypeError" =>
          \A k \in 1..Len(sent) :
            /\ k \in cementMessages <=> firstResponse[k] = NoResponse
            /\ k \in cementMessages <=> promise[k] = "pending")

\* after a stray response one request is still outstanding and another has
\* been settled by its own response
C10_Witness ==
  /\ strayResponses = 1
  /\ lastError = "TypeError"
  /\ \E k \in 1..Len(sent) : k \in cementMessages /\ promise[k] = "pending"
  /\ \E k \in 1..Len(sent) : promise[k] = "resolved"

\* C11: one subscribe call's rejection does not abort the replay: the step in
\* which a handshake task resumes leaves every tracked pair with a fresh
\* request that is pending and has its entry, whatever became of earlier
\* requests; a pending request always has its entry, so it can still be
\* settled either way; and the step that rejects a replayed request withdraws
\* no frame and changes no other request.
C11_ReplayIndependent ==
  /\ [](\A k \in 1..Len(sent) : promise[k] = "pending" => k \in cementMessages)
  /\ [][/\ \A t \in Tasks : Resumes(t) =>
             \A p \in Tracked(subscriptions) :
               \E k \in FramesFor(sent', p) :
                 /\ k > Len(sent)
                 /\ promise'[k] = "pending"
                 /\ k \in cementMessages'
        /\ \A k \in 1..Len(sent) :
             sent[k].cause >= 1 /\ promise[k] = "pending" /\ promise'[k] = "rejected" =>
               /\ sent' = sent
               /\ \A j \in (1..Len(sent)) \ {k} :
                    /\ promise'[j] = promise[j]
                    /\ j \in cementMessages <=> j \in cementMessages']_vars

\* two requests of one replay: the later one was rejected first, the earlier
\* one is still outstanding
C11_Witness ==
  /\ Len(sent) = 2
  /\ sent[1].cause >= 1
  /\ sent[2].cause = sent[1].cause
  /\ promise[2] = "rejected"
  /\ promise[1] = "pending"
  /\ 1 \in cementMessages

\* the call lastDispatch keeps was made with a bound name
DispatchedBound == lastDispatch.op # "none" /\ lastDispatch.modelName # Undefined

\* the call went out with the local name the frame's wire type is bound to,
\* not with the wire name
DispatchedLocalName ==
  /\ PathForType(lastDispatch.modelName) = lastDispatch.frame.model
  /\ lastDispatch.modelName # lastDispatch.frame.model
  /\ lastDispatch.modelName \in ModelNames

C13_NoPendingAcrossDisconnect ==
  ~socketUp =>
    /\ cementMessages = {}
    /\ \A k \in 1..Len(sent) : promise[k] # "pending"

\* the handshake tasks that have started and not ended
Unfinished ==
  {t \in Tasks : handshakes[t].pc \in {"connectionMessage", "sentinel", "resolved"}}

\* C14: at most one handshake task is unfinished at any time: a task starts
\* only when every earlier task has ended.
C14_OneHandshakeAtATime == Cardinality(Unfinished) <= 1

\* C15: cementMessages holds exactly the ids of the requests sent and not
\* yet answered, one entry per id: the ids of the frames sent are pairwise
\* distinct, a send adds the entry of its id, the first response with an id
\* removes its entry in the same step, and a later response with that id
\* finds none.
C15_EntriesAreUnansweredIds ==
  /\ [](/\ cementMessages = {k \in 1..Len(sent) : firstResponse[k] = NoResponse}
        /\ \A i, j \in 1..Len(sent) : sent[i].id = sent[j].id => i = j)
  /\ [][/\ \A k \in (Len(sent) + 1)..Len(sent') :
             sent'[k].id \in cementMessages' /\ sent'[k].id \notin cementMessages
        /\ \A k \in 1..Len(sent) :
             /\ firstResponse'[k] # firstResponse[k] =>
                  k \in cementMessages /\ k \notin cementMessages'
             /\ (firstResponse[k] # NoResponse /\ strayResponses' # strayResponses) =>
                  k \notin cementMessages /\ cementMessages' = cementMessages]_vars

\* of two requests sent the first was answered with a failure and has lost
\* its entry, the second is outstanding and has its entry, and a frame that
\* found no entry has arrived
C15_Witness ==
  /\ Len(sent) = 2
  /\ firstResponse[1] = 1
  /\ cementMessages = {2}
  /\ strayResponses = 1

\* C16: a send that the transport fails rejects its promise at once, records
\* no entry and is not tried again: in the step a request is logged whose
\* frame the transport did not take, the request's promise is rejected, its
\* id has no entry, and no second request of the step carries the same data.
C16_FailedSendRejects ==
  [][\A k \in (Len(sent) + 1)..Len(sent') :
       sent'[k].outcome # "sent" =>
         /\ promise'[k] = "rejected"
         /\ k \notin cementMessages'
         /\ \A j \in (Len(sent) + 1)..Len(sent') :
              sent'[j].data = sent'[k].data => j = k]_vars

\* the handshake tasks that have sent their connection message
HaveSent ==
  {t \in Tasks : handshakes[t].pc \in {"sentinel", "resolved", "rejected", "done"}}

C18_RegistryOnlyGrows ==
  /\ [](\A i, j \in 1..Len(subscriptions) :
          /\ subscriptions[i].key = subscriptions[j].key => i = j
          /\ \A a, b \in 1..Len(subscriptions[i].val) :
               subscriptions[i].val[a] = subscriptions[i].val[b] => a = b)
  /\ [][Tracked(subscriptions) \subseteq Tracked(subscriptions')]_vars

\* a pair is still tracked after a delete notification for it was handed to
\* the store and after a disconnect, beside a pair of the other type
C18_Witness ==
  /\ lastDispatch.op = "deleteRecordTask"
  /\ <<lastDispatch.modelName, lastDispatch.id>> \in Tracked(subscriptions)
  /\ disconnectedEvents >= 1
  /\ Len(subscriptions) = 2

\* the wire types a subscribe request has been made for
SentTypes == {sent[k].data.model : k \in 1..Len(sent)}

\* C19: a wire type is bound exactly if a subscribe request has been made for
\* it: every type with a request is bound to the local name whose path it
\* is, a type without one (tracked or not) is unbound; and a notification
\* that arrives for a type with a request is handed on with that local name.
C19_BoundBeforeSubscribe ==
  /\ [](\A w \in WireNames :
          /\ w \in SentTypes =>
               /\ jsonapiModelNames[w] \in ModelNames
               /\ PathForType(jsonapiModelNames[w]) = w
          /\ w \notin SentTypes => jsonapiModelNames[w] = Undefined)
  /\ [][(lastDispatch' # lastDispatch /\ lastDispatch'.frame.model \in SentTypes) =>
          /\ lastDispatch'.modelName \in ModelNames
          /\ PathForType(lastDispatch'.modelName) = lastDispatch'.frame.model]_vars

\* "posts" has a request and its binding; "comment" was tracked while not
\* connected and "comments" has neither
C19_Witness ==
  /\ "posts" \in SentTypes
  /\ jsonapiModelNames["posts"] = "post"
  /\ <<"comment", "1">> \in Tracked(subscriptions)
  /\ "comments" \notin SentTypes
  /\ jsonapiModelNames["comments"] = Undefined

\* C20: connected is never true while the transport is disconnected, and a
\* handshake task resumes (sets connected, invokes onConnected) only if no
\* 'disconnected' event was emitted since the connected event that started
\* it.
C20_NoStaleConnected ==
  /\ [](connected => socketUp)
  /\ [][\A t \in Tasks : Resumes(t) => handshakes[t].events = disconnectedEvents]_vars

====
